---- MODULE Spec2Model ----
(***************************************************************************)
(* A model of sdf/d3.py: the SDF3 field object, the operator registry and  *)
(* its dispatch, the primitives and the transform / combinator operators.  *)
(*                                                                         *)
(* Numbers are exact rationals <<n, d>> (d > 0, lowest terms); <<0, 0>>    *)
(* stands for a value that is not a finite rational (numpy's nan / inf, or *)
(* an irrational square root) and is absorbing, as nan is.  Angles are     *)
(* q quarter turns plus a residual in [0, pi/2) given by its cosine and    *)
(* sine, so that sin, cos, arccos, arctan2, negation and % are exact on    *)
(* the inputs drawn (axis-aligned and 3-4-5 directions).                   *)
(***************************************************************************)
EXTENDS Integers, Sequences, FiniteSets, TLC

VARIABLES heap, _ops, ret, batch

vars == <<heap, _ops, ret, batch>>

(***************************************************************************)
(* Bounds                                                                  *)
(***************************************************************************)
MaxFields == 3
MaxCoord == 1
MaxBatch == 2

(***************************************************************************)
(* Exact rational arithmetic (the float64 arithmetic of numpy, idealised)  *)
(***************************************************************************)
IAbs(n) == IF n < 0 THEN -n ELSE n

RECURSIVE GCD(_, _)
GCD(a, b) == IF b = 0 THEN a ELSE GCD(b, a % b)

NaR == <<0, 0>>

Q(n, d) ==
    IF d = 0 THEN NaR
    ELSE LET g == GCD(IAbs(n), IAbs(d))
             sg == IF d < 0 THEN -1 ELSE 1
         IN <<sg * (n \div g), sg * (d \div g)>>

Finite(a) == a[2] # 0

QI(n) == <<n, 1>>
Zero == QI(0)
One == QI(1)

QAdd(a, b) == IF Finite(a) /\ Finite(b) THEN Q(a[1] * b[2] + b[1] * a[2], a[2] * b[2]) ELSE NaR
QNeg(a) == IF Finite(a) THEN <<-a[1], a[2]>> ELSE NaR
QSub(a, b) == QAdd(a, QNeg(b))
QMul(a, b) == IF Finite(a) /\ Finite(b) THEN Q(a[1] * b[1], a[2] * b[2]) ELSE NaR
QDiv(a, b) == IF Finite(a) /\ Finite(b) THEN Q(a[1] * b[2], a[2] * b[1]) ELSE NaR
QAbs(a) == IF Finite(a) THEN <<IAbs(a[1]), a[2]>> ELSE NaR
QLt(a, b) == Finite(a) /\ Finite(b) /\ a[1] * b[2] < b[1] * a[2]
QLe(a, b) == Finite(a) /\ Finite(b) /\ a[1] * b[2] <= b[1] * a[2]

RECURSIVE IRoot(_, _)
IRoot(n, k) == IF k * k >= n THEN k ELSE IRoot(n, k + 1)

\* np.sqrt: exact on squares of rationals, not representable otherwise
QSqrt(a) ==
    IF ~Finite(a) \/ a[1] < 0 THEN NaR
    ELSE LET rn == IRoot(a[1], 0)
             rd == IRoot(a[2], 0)
         IN IF rn * rn = a[1] /\ rd * rd = a[2] THEN <<rn, rd>> ELSE NaR

\* _min = np.minimum, _max = np.maximum (nan propagates)
_min(a, b) == IF Finite(a) /\ Finite(b) THEN (IF QLe(a, b) THEN a ELSE b) ELSE NaR
_max(a, b) == IF Finite(a) /\ Finite(b) THEN (IF QLe(a, b) THEN b ELSE a) ELSE NaR

(***************************************************************************)
(* Vectors (3-tuples) and 3x3 matrices (3-tuples of rows)                  *)
(***************************************************************************)
V(x, y, z) == <<QI(x), QI(y), QI(z)>>

ORIGIN == V(0, 0, 0)
X == V(1, 0, 0)
Y == V(0, 1, 0)
Z == V(0, 0, 1)
UP == Z

VFinite(a) == Finite(a[1]) /\ Finite(a[2]) /\ Finite(a[3])
VAdd(a, b) == <<QAdd(a[1], b[1]), QAdd(a[2], b[2]), QAdd(a[3], b[3])>>
VSub(a, b) == <<QSub(a[1], b[1]), QSub(a[2], b[2]), QSub(a[3], b[3])>>
VNeg(a) == <<QNeg(a[1]), QNeg(a[2]), QNeg(a[3])>>
VScale(a, s) == <<QMul(a[1], s), QMul(a[2], s), QMul(a[3], s)>>
VDivS(a, s) == <<QDiv(a[1], s), QDiv(a[2], s), QDiv(a[3], s)>>

\* np.dot of two vectors
Dot(a, b) == QAdd(QAdd(QMul(a[1], b[1]), QMul(a[2], b[2])), QMul(a[3], b[3]))

\* np.cross
Cross(a, b) ==
    <<QSub(QMul(a[2], b[3]), QMul(a[3], b[2])),
      QSub(QMul(a[3], b[1]), QMul(a[1], b[3])),
      QSub(QMul(a[1], b[2]), QMul(a[2], b[1]))>>

\* np.linalg.norm of a vector; _length is the same on one row of a batch
Norm(a) == QSqrt(Dot(a, a))
_length(a) == Norm(a)
_normalize(a) == VDivS(a, Norm(a))

Transpose(m) ==
    <<<<m[1][1], m[2][1], m[3][1]>>,
      <<m[1][2], m[2][2], m[3][2]>>,
      <<m[1][3], m[2][3], m[3][3]>>>>

MCol(m, j) == <<m[1][j], m[2][j], m[3][j]>>

\* np.dot(p, matrix) for one row p
VecMat(p, m) == <<Dot(p, MCol(m, 1)), Dot(p, MCol(m, 2)), Dot(p, MCol(m, 3))>>

\* np.matmul
MatMul(a, b) == <<VecMat(a[1], b), VecMat(a[2], b), VecMat(a[3], b)>>

FlipZ == <<V(1, 0, 0), V(0, 1, 0), V(0, 0, -1)>>

(***************************************************************************)
(* Angles: q quarter turns plus a residual r in [0, pi/2) held as          *)
(* c = cos r, s = sin r                                                    *)
(***************************************************************************)
Ang(q, c, s) == [q |-> q, c |-> c, s |-> s]
NaAngle == Ang(0, NaR, NaR)

\* np.pi
Pi == Ang(2, One, Zero)

\* 2 * np.pi / count, for the counts that divide a full turn into quarter turns
TwoPiOver(count) == IF count \in {1, 2, 4} THEN Ang(4 \div count, One, Zero) ELSE NaAngle

\* np.cos, np.sin
Cos(a) ==
    CASE a.q % 4 = 0 -> a.c
      [] a.q % 4 = 1 -> QNeg(a.s)
      [] a.q % 4 = 2 -> QNeg(a.c)
      [] OTHER -> a.s

Sin(a) ==
    CASE a.q % 4 = 0 -> a.s
      [] a.q % 4 = 1 -> a.c
      [] a.q % 4 = 2 -> QNeg(a.s)
      [] OTHER -> QNeg(a.c)

\* unary minus on an angle
AngNeg(a) == IF a.s = Zero THEN Ang(-a.q, a.c, a.s) ELSE Ang(-a.q - 1, a.s, a.c)

\* a - da and a % da for da a whole number of quarter turns
AngSub(a, da) == IF da.s = Zero THEN Ang(a.q - da.q, a.c, a.s) ELSE NaAngle
AngMod(a, da) == IF da.s = Zero /\ da.q > 0 THEN Ang(a.q % da.q, a.c, a.s) ELSE NaAngle

\* np.arccos: [0, pi], nan outside [-1, 1]
ArcCos(d) ==
    LET r == QSqrt(QSub(One, QMul(d, d)))
    IN CASE d = One -> Ang(0, One, Zero)
         [] QLt(Zero, d) /\ QLt(d, One) -> Ang(0, d, r)
         [] d = Zero -> Ang(1, One, Zero)
         [] QLt(d, Zero) /\ QLt(QI(-1), d) -> Ang(1, r, QNeg(d))
         [] d = QI(-1) -> Ang(2, One, Zero)
         [] OTHER -> NaAngle

\* np.hypot
Hypot(x, y) == QSqrt(QAdd(QMul(x, x), QMul(y, y)))

\* np.arctan2(y, x): (-pi, pi]
ArcTan2(y, x) ==
    LET d == Hypot(x, y)
        c == QDiv(x, d)
        s == QDiv(y, d)
    IN CASE ~Finite(d) -> NaAngle
         [] d = Zero -> Ang(0, One, Zero)
         [] QLt(Zero, x) /\ QLe(Zero, y) -> Ang(0, c, s)
         [] QLe(x, Zero) /\ QLt(Zero, y) -> Ang(1, s, QNeg(c))
         [] QLt(x, Zero) /\ y = Zero -> Ang(2, One, Zero)
         [] QLt(x, Zero) /\ QLt(y, Zero) -> Ang(-2, QNeg(c), QNeg(s))
         [] OTHER -> Ang(-1, QNeg(s), c)

(***************************************************************************)
(* The rotation matrix of rotate / rotateD / mirror (lines 895-901): the   *)
(* array literal, then .T                                                  *)
(***************************************************************************)
Rodrigues(v, s, c) ==
    LET x == v[1]
        y == v[2]
        z == v[3]
        m == QSub(One, c)
        mm(a, b) == QMul(QMul(m, a), b)
    IN Transpose(
        <<<<QAdd(mm(x, x), c), QAdd(mm(x, y), QMul(z, s)), QSub(mm(z, x), QMul(y, s))>>,
          <<QSub(mm(x, y), QMul(z, s)), QAdd(mm(y, y), c), QAdd(mm(y, z), QMul(x, s))>>,
          <<QAdd(mm(z, x), QMul(y, s)), QSub(mm(y, z), QMul(x, s)), QAdd(mm(z, z), c)>>>>)

\* a variant that crosses every non-zero vector with the x axis
PerpendicularOneAxis(v) ==
    IF v[1] = Zero /\ v[2] = Zero /\ v[3] = Zero THEN <<>> ELSE Cross(v, V(1, 0, 0))

\* _perpendicular (lines 100-106); <<>> stands for the ValueError raised
_perpendicular(v) ==
    IF v[2] = Zero /\ v[3] = Zero
    THEN IF v[1] = Zero THEN <<>> ELSE Cross(v, V(0, 1, 0))
    ELSE Cross(v, V(1, 0, 0))

(***************************************************************************)
(* Field objects.  An SDF3 object is [f, k]: f is the wrapped callable,    *)
(* k the _k attribute (NoAttr while k() has not been called).  A field     *)
(* value is [ref |-> i], an object of the heap that the caller holds, or   *)
(* an object record itself when only one closure holds it.  A closure is   *)
(* a record with a kind and the variables it captured.                     *)
(***************************************************************************)
NoAttr == <<>>
None == <<0>>

IsClosure(x) == "kind" \in DOMAIN x
IsRef(x) == "ref" \in DOMAIN x
Ref(i) == [ref |-> i]

\* SDF3.__init__ (lines 23-24); d2.SDF2 is its 2D analog
SDF3(f) == [cls |-> "SDF3", f |-> f, k |-> NoAttr]
SDF2(f) == [cls |-> "SDF2", f |-> f, k |-> NoAttr]

Deref(h, fv) == IF IsRef(fv) THEN h[fv.ref] ELSE fv

\* getattr(b, "_k", None)
KOf(h, fv) == IF Deref(h, fv).k = NoAttr THEN None ELSE Deref(h, fv).k

(***************************************************************************)
(* Primitives: the closure each factory returns                            *)
(***************************************************************************)
\* a caller-supplied distance function handed to SDF3 directly: w . p + c
custom(w, c) == [kind |-> "custom", w |-> w, c |-> c]

\* sphere (lines 115-126)
sphere(radius, center) == SDF3([kind |-> "sphere", radius |-> radius, center |-> center])

\* plane (lines 128-143)
plane(normal, point) == SDF3([kind |-> "plane", normal |-> _normalize(normal), point |-> point])

\* box (lines 176-200), size given as a scalar
box(size, center) == SDF3([kind |-> "box", size |-> <<size, size, size>>, center |-> center])

\* tetrahedron (lines 804-812) and octahedron (815-820): r is the one parameter
tetrahedron(r) == SDF3([kind |-> "tetrahedron", r |-> r])
octahedron(r) == SDF3([kind |-> "octahedron", r |-> r])

(***************************************************************************)
(* The boolean kernel dn (not in this source tree): union, intersection,   *)
(* difference and negate return closures over their operands and k         *)
(***************************************************************************)
dn_union(a, b, k) == [kind |-> "union", a |-> a, b |-> b, k |-> k]
dn_intersection(a, b, k) == [kind |-> "intersection", a |-> a, b |-> b, k |-> k]
dn_difference(a, b, k) == [kind |-> "difference", a |-> a, b |-> b, k |-> k]
dn_negate(other) == [kind |-> "negate", other |-> other]

\* union = op3(dn.union) ... negate = op3(dn.negate) (lines 1270-1274)
union(a, b, k) == SDF3(dn_union(a, b, k))
difference(a, b, k) == SDF3(dn_difference(a, b, k))
intersection(a, b, k) == SDF3(dn_intersection(a, b, k))
negate(other) == SDF3(dn_negate(other))

\* SDF3.__or__, __and__, __sub__ (lines 35-42)
SwappedSub(self, other) == difference(other, self, None)
SDF3__or__(self, other) == union(self, other, None)
SDF3__and__(self, other) == intersection(self, other, None)
SDF3__sub__(self, other) == difference(self, other, None)

\* slab (lines 145-173) called as slab(z0=.., z1=..)
slab(z0, z1) ==
    SDF3(intersection(plane(Z, <<Zero, Zero, z0>>), plane(VNeg(Z), <<Zero, Zero, z1>>), None))

(***************************************************************************)
(* The registry and dispatch                                               *)
(***************************************************************************)
\* the error an attribute lookup raises when nothing is found
AttributeError == [error |-> "AttributeError"]
IsError(x) == "error" \in DOMAIN x

\* op3 / op32 (lines 65-78): _ops[f.__name__] = wrapper
op3BadName(ops, name) == [n \in DOMAIN ops \cup {"op3"} |-> IF n = "op3" THEN name ELSE ops[n]]
op3(ops, name) == [n \in DOMAIN ops \cup {name} |-> IF n = name THEN name ELSE ops[n]]
op32(ops, name) == [n \in DOMAIN ops \cup {name} |-> IF n = name THEN name ELSE ops[n]]

\* the names registered by @op3 / @op32 and by the op3(dn....) lines, in source order
Decorated ==
    <<"translate", "scale", "skin", "rotate", "rotateD", "rotate_to", "orient", "mirror",
      "mirror_copy", "circular_array", "elongate", "twist", "bend", "bend_linear",
      "bend_radial", "transition_linear", "transition_spherical", "transition_sdf",
      "transition_radial", "transition_sigmoid", "transition_general", "wrap_around",
      "slice", "union", "difference", "intersection", "blend", "negate", "dilate",
      "erode", "shell", "repeat">>

RECURSIVE Register(_, _)
Register(ops, i) ==
    IF i > Len(Decorated) THEN ops
    ELSE Register(IF Decorated[i] = "slice" THEN op32(ops, Decorated[i])
                  ELSE op3(ops, Decorated[i]), i + 1)

\* SDF3.__getattr__ (lines 29-33): functools.partial(f, self), or AttributeError
SDF3__getattr__(ops, self, name) ==
    IF name \in DOMAIN ops THEN [partial |-> ops[name], bound |-> <<self>>] ELSE AttributeError

(***************************************************************************)
(* Transform operators: each returns SDF3(closure), as its op3 wrapper does *)
(***************************************************************************)
\* translate (lines 858-863)
translate(other, offset) == SDF3([kind |-> "translate", other |-> other, offset |-> offset])

\* scale (lines 866-878), factor given as a scalar
scale(other, factor) ==
    SDF3([kind |-> "scale", other |-> other, s |-> <<factor, factor, factor>>, m |-> factor])

\* rotate (lines 889-906)
rotate(other, angle, vector) ==
    SDF3([kind |-> "rotate", other |-> other,
          matrix |-> Rodrigues(_normalize(vector), Sin(angle), Cos(angle))])

\* np.sin and np.cos of a float that is no exact multiple of a quarter turn, to
\* three decimals: the angle is held modulo 2 pi in millionths of a radian
TwoPiMicro == 6283185
HalfPiMilli == 1571
RECURSIVE Series(_, _, _, _)
Series(t, xx, k, n) ==
    IF n = 0 \/ t = 0 THEN 0
    ELSE t + Series(-((t * xx) \div (1000 * k * (k + 1))), xx, k + 2, n - 1)
SinQ1(r) == Series(r, (r * r) \div 1000, 2, 8)
CosQ1(r) == Series(1000, (r * r) \div 1000, 1, 8)
SinF(micro) ==
    LET q == (micro \div 1000) \div HalfPiMilli
        r == (micro \div 1000) % HalfPiMilli
    IN Q(CASE q = 0 -> SinQ1(r) [] q = 1 -> CosQ1(r) [] q = 2 -> -SinQ1(r) [] OTHER -> -CosQ1(r),
         1000)
CosF(micro) ==
    LET q == (micro \div 1000) \div HalfPiMilli
        r == (micro \div 1000) % HalfPiMilli
    IN Q(CASE q = 0 -> CosQ1(r) [] q = 1 -> -SinQ1(r) [] q = 2 -> -CosQ1(r) [] OTHER -> SinQ1(r),
         1000)

\* angle * (180 / np.pi) (lines 912-913), for a whole number angle >= 0:
\* 180 / np.pi in millionths, the product taken modulo 2 pi
RadToDegMicro == 57295780
TimesRadToDeg(angle) == (angle * (RadToDegMicro % TwoPiMicro)) % TwoPiMicro

\* rotateD (lines 909-926): the matrix of rotate, from angle * (180 / np.pi)
rotateD(other, angle, vector) ==
    SDF3([kind |-> "rotate", other |-> other,
          matrix |-> Rodrigues(_normalize(vector), SinF(TimesRadToDeg(angle)),
                               CosF(TimesRadToDeg(angle)))])

\* rotate_to (lines 929-940)
rotate_to(other, a, b) ==
    LET an == _normalize(a)
        bn == _normalize(b)
        dot == Dot(bn, an)
    IN SDF3(IF dot = One THEN other
            ELSE IF dot = QI(-1) THEN rotate(other, Pi, _perpendicular(an))
            ELSE rotate(other, ArcCos(dot), _normalize(Cross(bn, an))))

\* orient (lines 943-945)
orient(other, axis) == SDF3(rotate_to(other, UP, axis))

\* mirror (lines 948-993)
MirrorNoRotateBack(other, axis, center) ==
    LET a == _normalize(axis)
        dot == Dot(UP, a)
        angle == ArcCos(dot)
        v == _normalize(Cross(UP, a))
        matrix_a == Rodrigues(v, Sin(angle), Cos(angle))
        matrix_b == Transpose(FlipZ)
    IN SDF3([kind |-> "mirror", other |-> other, center |-> center,
             matrix |-> IF dot = One \/ dot = QI(-1) THEN FlipZ
                        ELSE MatMul(matrix_a, matrix_b)])

mirror(other, axis, center) ==
    LET a == _normalize(axis)
        dot == Dot(UP, a)
        angle == ArcCos(dot)
        v == _normalize(Cross(UP, a))
        matrix_a == Rodrigues(v, Sin(angle), Cos(angle))
        matrix_b == Transpose(FlipZ)
        matrix_c == Rodrigues(v, Sin(AngNeg(angle)), Cos(AngNeg(angle)))
    IN SDF3([kind |-> "mirror", other |-> other, center |-> center,
             matrix |-> IF dot = One \/ dot = QI(-1) THEN FlipZ
                        ELSE MatMul(MatMul(matrix_a, matrix_b), matrix_c)])

\* the half-thickness of the slab that slice cuts with (line 1253)
SliceEps == Q(1, 1000000000)

RECURSIVE Apply(_, _, _)

\* circular_array (lines 1045-1060); other.translate goes through dispatch
circular_array(ops, other, count, offset) ==
    LET t == SDF3__getattr__(ops, other, "translate")
    IN IF IsError(t) THEN t
       ELSE SDF3([kind |-> "circular_array",
                  other |-> Apply(ops, t.partial, t.bound \o <<VScale(X, offset)>>),
                  da |-> TwoPiOver(count)])

\* slice (lines 1249-1265); other.negate goes through dispatch
slice(ops, other) ==
    LET s == slab(QNeg(SliceEps), SliceEps)
        n == SDF3__getattr__(ops, other, "negate")
    IN IF IsError(n) THEN n
       ELSE SDF2([kind |-> "slice",
                  a |-> SDF3__and__(other, s),
                  b |-> SDF3__and__(Apply(ops, n.partial, n.bound), s)])

\* calling the wrapper registered for a decorated function
Apply(ops, fn, args) ==
    CASE fn = "translate" -> translate(args[1], args[2])
      [] fn = "scale" -> scale(args[1], args[2])
      [] fn = "rotate" -> rotate(args[1], args[2], args[3])
      [] fn = "rotate_to" -> rotate_to(args[1], args[2], args[3])
      [] fn = "orient" -> orient(args[1], args[2])
      [] fn = "mirror" -> mirror(args[1], args[2], args[3])
      [] fn = "circular_array" -> circular_array(ops, args[1], args[2], args[3])
      [] fn = "slice" -> slice(ops, args[1])
      [] fn = "union" -> union(args[1], args[2], None)
      [] fn = "difference" -> difference(args[1], args[2], None)
      [] fn = "intersection" -> intersection(args[1], args[2], None)
      [] fn = "negate" -> negate(args[1])

\* calling what __getattr__ returned: partial(f, self)(*args)
Call(ops, attr, args) == Apply(ops, attr.partial, attr.bound \o args)

(***************************************************************************)
(* Evaluation at one point: SDF3.__call__ (lines 26-27) and the closures   *)
(***************************************************************************)
\* the coefficient a boolean closure smooths with: its k, else one carried by an operand
Smoothing(h, c) ==
    IF c.k # None THEN c.k
    ELSE IF KOf(h, c.b) # None THEN KOf(h, c.b) ELSE KOf(h, c.a)

RECURSIVE Eval(_, _, _)
RECURSIVE EvalF(_, _, _)

Eval(h, fv, p) == EvalF(h, Deref(h, fv).f, p)

EvalCircularUnfolded(h, c, p) ==
    LET d == Hypot(p[1], p[2])
        a == ArcTan2(p[2], p[1])
        b == AngSub(a, c.da)
        d1 == Eval(h, c.other, <<QMul(Cos(b), d), QMul(Sin(b), d), p[3]>>)
        d2 == Eval(h, c.other, <<QMul(Cos(a), d), QMul(Sin(a), d), p[3]>>)
    IN _min(d1, d2)

EvalCircular(h, c, p) ==
    LET d == Hypot(p[1], p[2])
        a == AngMod(ArcTan2(p[2], p[1]), c.da)
        b == AngSub(a, c.da)
        d1 == Eval(h, c.other, <<QMul(Cos(b), d), QMul(Sin(b), d), p[3]>>)
        d2 == Eval(h, c.other, <<QMul(Cos(a), d), QMul(Sin(a), d), p[3]>>)
    IN _min(d1, d2)

EvalBox(c, p) ==
    LET q == <<QSub(QAbs(QSub(p[1], c.center[1])), QDiv(c.size[1], QI(2))),
               QSub(QAbs(QSub(p[2], c.center[2])), QDiv(c.size[2], QI(2))),
               QSub(QAbs(QSub(p[3], c.center[3])), QDiv(c.size[3], QI(2)))>>
        pos == <<_max(q[1], Zero), _max(q[2], Zero), _max(q[3], Zero)>>
    IN QAdd(_length(pos), _min(_max(q[1], _max(q[2], q[3])), Zero))

\* the hard booleans; with a smoothing coefficient the value is the kernel's own
EvalBool(h, c, p) ==
    IF Smoothing(h, c) # None THEN NaR
    ELSE CASE c.kind = "union" -> _min(Eval(h, c.a, p), Eval(h, c.b, p))
           [] c.kind = "intersection" -> _max(Eval(h, c.a, p), Eval(h, c.b, p))
           [] c.kind = "difference" -> _max(Eval(h, c.a, p), QNeg(Eval(h, c.b, p)))

EvalSliceNoRepair(h, c, p) == Eval(h, c.a, <<p[1], p[2], Zero>>)

EvalSlice(h, c, p) ==
    LET p3 == <<p[1], p[2], Zero>>
        A == Eval(h, c.a, p3)
        B == QNeg(Eval(h, c.b, p3))
    IN IF QLe(A, Zero) THEN B ELSE A

\* np.sqrt(3) and np.tan(np.radians(30)), to three decimals
Sqrt3 == Q(1732, 1000)
Tan30 == Q(577, 1000)

\* the distance function of tetrahedron (lines 805-810)
EvalTetrahedron(c, p) ==
    QDiv(QSub(_max(QSub(QAbs(QAdd(p[1], p[2])), p[3]),
                   QAdd(QAbs(QSub(p[1], p[2])), p[3])), One), Sqrt3)

\* the distance function of octahedron (lines 817-818)
EvalOctahedron(c, p) ==
    QMul(QSub(QAdd(QAdd(QAbs(p[1]), QAbs(p[2])), QAbs(p[3])), c.r), Tan30)

EvalF(h, c, p) ==
    IF ~IsClosure(c) THEN Eval(h, c, p)
    ELSE CASE c.kind = "custom" -> QAdd(Dot(p, c.w), c.c)
           [] c.kind = "sphere" -> QSub(_length(VSub(p, c.center)), c.radius)
           [] c.kind = "plane" -> Dot(VSub(c.point, p), c.normal)
           [] c.kind = "box" -> EvalBox(c, p)
           [] c.kind = "tetrahedron" -> EvalTetrahedron(c, p)
           [] c.kind = "octahedron" -> EvalOctahedron(c, p)
           [] c.kind = "translate" -> Eval(h, c.other, VSub(p, c.offset))
           [] c.kind = "scale" ->
                QMul(Eval(h, c.other, <<QDiv(p[1], c.s[1]), QDiv(p[2], c.s[2]), QDiv(p[3], c.s[3])>>), c.m)
           [] c.kind = "rotate" -> Eval(h, c.other, VecMat(p, c.matrix))
           [] c.kind = "mirror" -> Eval(h, c.other, VAdd(VecMat(VSub(p, c.center), c.matrix), c.center))
           [] c.kind = "circular_array" -> EvalCircular(h, c, p)
           [] c.kind = "negate" -> QNeg(Eval(h, c.other, p))
           [] c.kind \in {"union", "intersection", "difference"} -> EvalBool(h, c, p)
           [] c.kind = "slice" -> EvalSlice(h, c, p)

(***************************************************************************)
(* Inputs                                                                  *)
(***************************************************************************)
Coords == (-MaxCoord) .. MaxCoord
Points == {V(x, y, z) : x \in Coords, y \in Coords, z \in Coords}

\* directions: the axes and some with a rational norm
Dirs ==
    {V(1, 0, 0), V(-1, 0, 0), V(0, 1, 0), V(0, -1, 0), V(0, 0, 1), V(0, 0, -1),
     V(0, 0, 2), V(3, 0, 4), V(0, 3, 4), V(-3, 0, 4), V(4, 3, 0), V(0, 4, -3)}

Centers == {ORIGIN, V(1, 0, 2), V(0, -1, 1)}
Counts == {1, 2, 4}
Offsets == {Zero, One, QI(2)}
KValues == {None, Q(1, 4)}

\* radii of the platonic solids
Radii == {Q(1, 3), Q(1, 2), One, QI(2)}

\* angles in degrees
Degrees == {0, 90, 180, 270, 360}

\* fields handed in by the caller
ProbeA == SDF3(custom(V(1, 3, 9), Zero))
ProbeB == SDF3(custom(V(-2, 5, 1), One))
ProbeX == SDF3(custom(V(1, 0, 0), Zero))
GeomBases == {ProbeA, ProbeX, sphere(One, ORIGIN), box(QI(2), ORIGIN)}
SliceBases == {ProbeX, sphere(One, ORIGIN), box(QI(2), ORIGIN)}

(***************************************************************************)
(* The geometric operators applied once to a drawn field: heap[1] and      *)
(* heap[2] are the caller's fields, ret records the last call              *)
(***************************************************************************)
Called(op, args, result) == [op |-> op, args |-> args, result |-> result]

GeomInit ==
    /\ heap \in {<<a, ProbeB>> : a \in GeomBases}
    /\ _ops = Register(<<>>, 1)
    /\ ret = Called("init", <<>>, Ref(1))
    /\ batch = [n |-> 0, written |-> {}]

\* the call returns a new object, which the caller now holds
Returns(op, args, obj) ==
    /\ heap' = Append(heap, obj)
    /\ ret' = Called(op, args, Ref(Len(heap) + 1))
    /\ UNCHANGED <<_ops, batch>>

\* SDF3.k (lines 44-46): sets _k on self and returns self
SDF3_k(h, i, k) == [h EXCEPT ![i].k = k]

GK ==
    /\ Len(heap) = 2
    /\ \E i \in 1 .. 2, k \in KValues :
        /\ heap' = SDF3_k(heap, i, k)
        /\ ret' = Called("k", <<Ref(i), k>>, Ref(i))
    /\ UNCHANGED <<_ops, batch>>

GRotateTo ==
    /\ Len(heap) = 2
    /\ \E a \in Dirs, b \in Dirs :
        Returns("rotate_to", <<Ref(1), a, b>>, rotate_to(Ref(1), a, b))

GOrient ==
    /\ Len(heap) = 2
    /\ \E axis \in Dirs : Returns("orient", <<Ref(1), axis>>, orient(Ref(1), axis))

\* rotate_to between a direction and itself or its opposite.  V(1, 1, 0) has
\* an irrational norm: the floats of its normalisation have a dot product of
\* 0.9999999999999998, which is neither of the values rotate_to tests for
GRotateToParallel ==
    /\ Len(heap) = 2
    /\ \E v \in Dirs \cup {V(1, 1, 0)}, sign \in {1, -1} :
        Returns("rotate_to_parallel", <<Ref(1), v, VScale(v, QI(sign))>>,
                rotate_to(Ref(1), v, VScale(v, QI(sign))))

\* _perpendicular called on its own, the zero vector included; a pure function
\* of v, so it is applied before any other operation only
GPerpendicular ==
    /\ Len(heap) = 2
    /\ ret.op = "init"
    /\ \E v \in Points \cup Dirs :
        /\ ret' = Called("_perpendicular", <<v>>, _perpendicular(v))
        /\ UNCHANGED <<heap, _ops, batch>>

\* tetrahedron(r) and octahedron(r), built before any other operation
GPlatonic ==
    /\ Len(heap) = 2
    /\ ret.op = "init"
    /\ \E r \in Radii :
        \/ Returns("tetrahedron", <<r>>, tetrahedron(r))
        \/ Returns("octahedron", <<r>>, octahedron(r))

GRotateD ==
    /\ Len(heap) = 2
    /\ \E d \in Degrees, axis \in {X, Y, Z} :
        Returns("rotateD", <<Ref(1), d, axis>>, rotateD(Ref(1), d, axis))

GMirror ==
    /\ Len(heap) = 2
    /\ \E axis \in Dirs, c \in Centers :
        Returns("mirror", <<Ref(1), axis, c>>, mirror(Ref(1), axis, c))

\* mirror applied to the result of the mirror just made, same axis and center
GMirrorAgain ==
    /\ Len(heap) = 3
    /\ ret.op = "mirror"
    /\ Returns("mirror_again", <<ret.result, ret.args[2], ret.args[3]>>,
               mirror(ret.result, ret.args[2], ret.args[3]))

GCircularArray ==
    /\ Len(heap) = 2
    /\ \E n \in Counts, off \in Offsets :
        Returns("circular_array", <<Ref(1), n, off>>, circular_array(_ops, Ref(1), n, off))

GSlice ==
    /\ Len(heap) = 2
    /\ heap[1] \in SliceBases
    /\ Returns("slice", <<Ref(1)>>, slice(_ops, Ref(1)))

GBoolean ==
    /\ Len(heap) = 2
    /\ \E i \in 1 .. 2 :
        LET a == Ref(i)
            b == Ref(3 - i)
        IN \/ Returns("__or__", <<a, b>>, SDF3__or__(a, b))
           \/ Returns("__and__", <<a, b>>, SDF3__and__(a, b))
           \/ Returns("__sub__", <<a, b>>, SDF3__sub__(a, b))
           \/ Returns("union", <<a, b>>, union(a, b, None))
           \/ Returns("intersection", <<a, b>>, intersection(a, b, None))
           \/ Returns("difference", <<a, b>>, difference(a, b, None))

GeomNext ==
    \/ GK
    \/ GRotateTo
    \/ GOrient
    \/ GRotateToParallel
    \/ GPerpendicular
    \/ GPlatonic
    \/ GRotateD
    \/ GMirror
    \/ GMirrorAgain
    \/ GCircularArray
    \/ GSlice
    \/ GBoolean

GeomSpec == GeomInit /\ [][GeomNext]_vars

(***************************************************************************)
(* Properties of the geometric operators, under GeomSpec                   *)
(***************************************************************************)
Scalars == {QI(n) : n \in Coords} \cup {Q(1, 2), QI(5)}
HardMin(x, y) == IF QLe(x, y) THEN x ELSE y
HardMax(x, y) == IF QLe(x, y) THEN y ELSE x
NonParallel(a, b) == VFinite(Cross(a, b)) /\ Cross(a, b) # ORIGIN

\* C2: rotate_to(A, a, b) at s * unit(b) equals A at s * unit(a) for non-parallel
\* a and b and every scalar s, and orient(A, axis) at s * unit(axis) equals A at
\* s * UP, wherever the two values are finite rationals.
C2_RotateToAligns ==
    /\ ret.op = "rotate_to" /\ NonParallel(ret.args[2], ret.args[3]) =>
         \A s \in Scalars :
            LET got == Eval(heap, ret.result, VScale(_normalize(ret.args[3]), s))
                want == Eval(heap, ret.args[1], VScale(_normalize(ret.args[2]), s))
            IN Finite(got) /\ Finite(want) => got = want
    /\ ret.op = "orient" /\ NonParallel(UP, ret.args[2]) =>
         \A s \in Scalars :
            LET got == Eval(heap, ret.result, VScale(_normalize(ret.args[2]), s))
                want == Eval(heap, ret.args[1], VScale(UP, s))
            IN Finite(got) /\ Finite(want) => got = want

BoolOps == {"__or__", "__and__", "__sub__", "union", "intersection", "difference"}
NoSmoothing == KOf(heap, ret.args[1]) = None /\ KOf(heap, ret.args[2]) = None

HardBoolean(op, x, y) ==
    CASE op \in {"__or__", "union"} -> HardMin(x, y)
      [] op \in {"__and__", "intersection"} -> HardMax(x, y)
      [] op \in {"__sub__", "difference"} -> HardMax(x, QNeg(y))

\* C13: rotateD takes degrees: rotateD(A, d, axis) has the values of
\* rotate(A, d * pi / 180, axis) (to the precision of a float sine), so
\* rotateD(A, 90, Z) is rotate(A, pi / 2, Z) and rotateD(A, 360, axis) is A
Tolerance == Q(1, 4)
DegreesAsRadians(d) == Ang(d \div 90, One, Zero)
C13_RotateDIsDegrees ==
    ret.op = "rotateD" =>
        \A p \in Points :
            QLe(QAbs(QSub(Eval(heap, ret.result, p),
                          Eval(heap, rotate(ret.args[1], DegreesAsRadians(ret.args[2]),
                                            ret.args[3]), p))),
                Tolerance)

\* C14: rotate_to(A, v, v) has the values of A, and rotate_to(A, v, -v) has the
\* values of A turned by a half turn about some non-zero axis u perpendicular to v
HalfTurn(p, u) == VSub(VScale(u, QDiv(QMul(QI(2), Dot(p, u)), Dot(u, u))), p)
C14_RotateToParallel ==
    ret.op = "rotate_to_parallel" =>
        IF ret.args[3] = ret.args[2]
        THEN \A p \in Points : Eval(heap, ret.result, p) = Eval(heap, ret.args[1], p)
        ELSE \E e \in {X, Y, Z} :
                LET u == Cross(ret.args[2], e)
                IN /\ u # ORIGIN
                   /\ Dot(u, ret.args[2]) = Zero
                   /\ \A p \in Points :
                        Eval(heap, ret.result, p) = Eval(heap, ret.args[1], HalfTurn(p, u))

\* C15: _perpendicular(v) raises exactly when v is the zero vector, and for every
\* other v returns a non-zero vector whose dot product with v is zero
C15_Perpendicular ==
    ret.op = "_perpendicular" =>
        /\ (ret.result = <<>>) <=> (ret.args[1] = ORIGIN)
        /\ ret.args[1] # ORIGIN =>
            /\ ret.result # ORIGIN
            /\ Dot(ret.result, ret.args[1]) = Zero
C15_Witness ==
    /\ ret.op = "_perpendicular"
    /\ ret.args[1] = X
    /\ ret.result \notin {<<>>, ORIGIN}

\* C16: tetrahedron(r) and octahedron(r) are sized by r: at r * p they have the
\* sign that the solid of radius 1 has at p
QSign(q) == IF q = Zero THEN 0 ELSE IF QLt(q, Zero) THEN -1 ELSE 1
UnitSolid(op) == IF op = "tetrahedron" THEN tetrahedron(One) ELSE octahedron(One)
C16_SizedByR ==
    ret.op \in {"tetrahedron", "octahedron"} =>
        \A p \in Points :
            QSign(Eval(heap, ret.result, VScale(p, ret.args[1])))
                = QSign(EvalF(heap, UnitSolid(ret.op).f, p))

\* C3: with no smoothing coefficient on either operand, A | B and union(A, B) are
\* min(A(p), B(p)), A & B and intersection(A, B) are max(A(p), B(p)), A - B and
\* difference(A, B) are max(A(p), -B(p)), at every point p.
C3_HardBooleans ==
    ret.op \in BoolOps /\ NoSmoothing =>
        \A p \in Points :
            LET x == Eval(heap, ret.args[1], p)
                y == Eval(heap, ret.args[2], p)
            IN Finite(x) /\ Finite(y) => Eval(heap, ret.result, p) = HardBoolean(ret.op, x, y)

\* A - B was built with no smoothing and, at some point, differs from B - A
C3_Witness ==
    /\ ret.op = "__sub__"
    /\ NoSmoothing
    /\ \E p \in Points :
        LET x == Eval(heap, ret.args[1], p)
            y == Eval(heap, ret.args[2], p)
        IN /\ Finite(x) /\ Finite(y)
           /\ Eval(heap, ret.result, p) = HardMax(x, QNeg(y))
           /\ HardMax(x, QNeg(y)) # HardMax(y, QNeg(x))

\* the reflection of p across the plane through c with unit normal n
Reflect(p, n, c) == VSub(p, VScale(n, QMul(QI(2), Dot(VSub(p, c), n))))

\* C4: mirror(A, axis, c) at p is A at the reflection of p across the plane through
\* c with normal axis, and mirror applied twice with the same axis and center
\* agrees with A at every point.
C4_MirrorReflects ==
    /\ ret.op = "mirror" =>
         \A p \in Points :
            Eval(heap, ret.result, p)
                = Eval(heap, ret.args[1], Reflect(p, _normalize(ret.args[2]), ret.args[3]))
    /\ ret.op = "mirror_again" =>
         \A p \in Points : Eval(heap, ret.result, p) = Eval(heap, Ref(1), p)

\* mirror has been applied twice about an axis off Z and a center off the origin,
\* and the single mirror changes the field
C4_Witness ==
    /\ ret.op = "mirror_again"
    /\ ret.args[2] = V(3, 0, 4)
    /\ ret.args[3] = V(1, 0, 2)
    /\ \E p \in Points :
        /\ Finite(Eval(heap, Ref(3), p))
        /\ Eval(heap, Ref(3), p) # Eval(heap, Ref(1), p)
        /\ Eval(heap, ret.result, p) = Eval(heap, Ref(1), p)

\* p turned by j quarter turns about Z
RotZQuarter(p, j) ==
    CASE j % 4 = 0 -> p
      [] j % 4 = 1 -> <<QNeg(p[2]), p[1], p[3]>>
      [] j % 4 = 2 -> <<QNeg(p[1]), QNeg(p[2]), p[3]>>
      [] OTHER -> <<p[2], QNeg(p[1]), p[3]>>

\* the azimuth of q lies in [0, 2 pi / count)
InCell(q, count) ==
    CASE count = 1 -> TRUE
      [] count = 2 -> QLt(Zero, q[2]) \/ (q[2] = Zero /\ QLe(Zero, q[1]))
      [] count = 4 -> (QLt(Zero, q[1]) /\ QLe(Zero, q[2])) \/ (q[1] = Zero /\ q[2] = Zero)

CircPoints ==
    Points \cup {<<QI(x), QI(y), QI(z)>> :
                    x \in {-4, -3, 3, 4}, y \in {-4, -3, 3, 4}, z \in {0, 1}}

\* C5: circular_array(A, n, offset) takes equal values at p and at p turned by
\* 2 pi / n about Z, and its value at p is the minimum of A translated by offset
\* along X over the two copies whose cells bound the folded azimuth of p.
C5_CircularArray ==
    ret.op = "circular_array" =>
        LET n == ret.args[2]
            step == 4 \div n
            At(q) == Eval(heap, ret.args[1], VSub(q, VScale(X, ret.args[3])))
        IN \A p \in CircPoints :
            LET v == Eval(heap, ret.result, p)
            IN Finite(v) =>
                /\ v = Eval(heap, ret.result, RotZQuarter(p, step))
                /\ \E k \in 0 .. (n - 1) :
                    LET q == RotZQuarter(p, 4 - ((k * step) % 4))
                    IN /\ InCell(q, n)
                       /\ v = HardMin(At(q), At(RotZQuarter(q, 4 - (step % 4))))

\* a four-fold array with an offset has been built from the probe, and a point off
\* the axes in the second quadrant takes the value of a turned copy
C5_Witness ==
    /\ ret.op = "circular_array"
    /\ ret.args[2] = 4
    /\ ret.args[3] = One
    /\ heap[1] = ProbeA
    /\ Finite(Eval(heap, ret.result, V(-4, 3, 1)))
    /\ Eval(heap, ret.result, V(-4, 3, 1)) = Eval(heap, ret.result, V(3, 4, 1))
    /\ Eval(heap, ret.result, V(-4, 3, 1)) # Eval(heap, Ref(1), VSub(V(-4, 3, 1), X))

SliceCoords == {QI(-2), QI(-1), Q(-1, 2), Zero, Q(1, 2), One, QI(2)}
SlicePoints == {<<x, y>> : x \in SliceCoords, y \in SliceCoords}

\* C6: slice(F) at (x, y) equals F at (x, y, 0), where F is positive and where it
\* is zero or negative.
C6_SliceIsSection ==
    ret.op = "slice" =>
        \A p \in SlicePoints :
            LET want == Eval(heap, ret.args[1], <<p[1], p[2], Zero>>)
            IN Finite(want) => Eval(heap, ret.result, p) = want

\* slice(sphere(1)) has been built; it is -1/2 at (1/2, 0), 0 at (1, 0), 1 at (0, 2)
C6_Witness ==
    /\ ret.op = "slice"
    /\ heap[1] = sphere(One, ORIGIN)
    /\ Eval(heap, ret.result, <<Q(1, 2), Zero>>) = Q(-1, 2)
    /\ Eval(heap, ret.result, <<One, Zero>>) = Zero
    /\ Eval(heap, ret.result, <<Zero, QI(2)>>) = One

(***************************************************************************)
(* Batches.  A numpy array is [shape, d, buf]: shape is <<>>, <<n>> or     *)
(* <<n, m>>; d lists, row-major, for each element the set of rows of the   *)
(* caller's batch it was computed from; buf names the buffer that holds    *)
(* it: "batch" (the caller's array), "param" (an array a closure captured) *)
(* or "local" (allocated by this evaluation).  Reject is what is left when *)
(* numpy raises.                                                           *)
(***************************************************************************)
Arr(shape, d, buf) == [shape |-> shape, d |-> d, buf |-> buf]
Reject == Arr(<<-1>>, <<>>, "local")
IsArr(a) == a.shape # <<-1>>

Rank(a) == Len(a.shape)
Rows(a) == IF Rank(a) = 2 THEN a.shape[1] ELSE 1
NCols(a) == IF Rank(a) = 0 THEN 1 ELSE a.shape[Rank(a)]
At2(a, i, j) == a.d[(i - 1) * NCols(a) + j]

\* a Python scalar, and a captured parameter vector of length m
Scal == Arr(<<>>, <<{}>>, "local")
Param(m) == Arr(<<m>>, [i \in 1 .. m |-> {}], "param")
ParamMatrix == Arr(<<3, 3>>, [i \in 1 .. 9 |-> {}], "param")

\* the caller's batch of n points
BatchArr(n) == Arr(<<n, 3>>, [k \in 1 .. (n * 3) |-> {((k - 1) \div 3) + 1}], "batch")

BDim(x, y) == IF x = y THEN x ELSE IF x = 1 THEN y ELSE IF y = 1 THEN x ELSE -1
IMax(x, y) == IF x >= y THEN x ELSE y

\* an elementwise binary operation, with numpy's broadcasting
Bin(a, b) ==
    IF ~IsArr(a) \/ ~IsArr(b) THEN Reject
    ELSE LET r == BDim(Rows(a), Rows(b))
             c == BDim(NCols(a), NCols(b))
             rank == IMax(Rank(a), Rank(b))
             el(i, j) ==
                 At2(a, IF Rows(a) = 1 THEN 1 ELSE i, IF NCols(a) = 1 THEN 1 ELSE j)
                 \cup At2(b, IF Rows(b) = 1 THEN 1 ELSE i, IF NCols(b) = 1 THEN 1 ELSE j)
         IN IF r < 0 \/ c < 0 THEN Reject
            ELSE Arr(CASE rank = 0 -> <<>> [] rank = 1 -> <<c>> [] OTHER -> <<r, c>>,
                     [k \in 1 .. (r * c) |-> el(((k - 1) \div c) + 1, ((k - 1) % c) + 1)],
                     "local")

\* an elementwise unary operation (np.abs, np.sin, np.clip, a scalar operand, an ease)
Un(a) == IF IsArr(a) THEN Arr(a.shape, a.d, "local") ELSE Reject

\* a[:, j]: a view
Col(a, j) ==
    IF IsArr(a) /\ Rank(a) = 2 /\ j <= NCols(a)
    THEN Arr(<<Rows(a)>>, [i \in 1 .. Rows(a) |-> At2(a, i, j)], a.buf)
    ELSE Reject

\* a[:, [j1, j2]]: a copy
Cols(a, js) ==
    IF IsArr(a) /\ Rank(a) = 2
    THEN Arr(<<Rows(a), Len(js)>>,
             [k \in 1 .. (Rows(a) * Len(js)) |->
                 At2(a, ((k - 1) \div Len(js)) + 1, js[((k - 1) % Len(js)) + 1])],
             "local")
    ELSE Reject

\* a reduction along axis 1 (np.linalg.norm, np.sum, np.amax with axis=1)
Reduce1(a) ==
    IF IsArr(a) /\ Rank(a) = 2
    THEN Arr(<<Rows(a)>>,
             [i \in 1 .. Rows(a) |-> UNION {At2(a, i, j) : j \in 1 .. NCols(a)}], "local")
    ELSE Reject

\* a.reshape((-1, 1)) and a.reshape(-1): views
Reshape_1_1(a) == IF IsArr(a) THEN Arr(<<Len(a.d), 1>>, a.d, a.buf) ELSE Reject
Reshape_1(a) == IF IsArr(a) THEN Arr(<<Len(a.d)>>, a.d, a.buf) ELSE Reject

\* np.dot(a, v) for a of shape (n, 3) and v a vector (3,) or a matrix (3, 3)
DotV(a) == Reduce1(a)
DotM(a) ==
    IF IsArr(a) /\ Rank(a) = 2
    THEN Arr(a.shape,
             [k \in 1 .. Len(a.d) |->
                 UNION {At2(a, ((k - 1) \div NCols(a)) + 1, j) : j \in 1 .. NCols(a)}],
             "local")
    ELSE Reject

\* _vec (lines 96-97): np.stack(arrs, axis=-1) of arrays of shape (n,)
_vec(arrs) ==
    IF \A i \in 1 .. Len(arrs) : IsArr(arrs[i]) /\ arrs[i].shape = arrs[1].shape /\ Rank(arrs[i]) = 1
    THEN LET n == arrs[1].shape[1]
             m == Len(arrs)
         IN Arr(<<n, m>>,
                [k \in 1 .. (n * m) |-> arrs[((k - 1) % m) + 1].d[((k - 1) \div m) + 1]],
                "local")
    ELSE Reject

(***************************************************************************)
(* Primitives and operators that are evaluated on batches only             *)
(***************************************************************************)
\* pyramid (lines 362-382), graded_gyroid (760-782): parameters are plain numbers
pyramid == SDF3([kind |-> "pyramid"])
graded_gyroid == SDF3([kind |-> "graded_gyroid"])

\* FG_gyroid (lines 718-746): fh and ft are fields
FG_gyroid(fh, ft) == SDF3([kind |-> "FG_gyroid", fh |-> fh, ft |-> ft])

\* elongate (1066-1076), twist (1079-1092), transition_linear (1140-1153),
\* transition_sdf (1169-1180), wrap_around (1222-1243)
elongate(other) == SDF3([kind |-> "elongate", other |-> other])
twist(other) == SDF3([kind |-> "twist", other |-> other])
transition_linear(f0, f1) == SDF3([kind |-> "transition_linear", f0 |-> f0, f1 |-> f1])
transition_sdf(f0, f1, f2) == SDF3([kind |-> "transition_sdf", f0 |-> f0, f1 |-> f1, f2 |-> f2])
wrap_around(other) == SDF3([kind |-> "wrap_around", other |-> other])

(***************************************************************************)
(* Evaluation on a batch: what each closure computes from the array p      *)
(***************************************************************************)
\* the box clip _length(_max(q, 0)) + _min(np.amax(q, axis=1), 0) of q (lines 197-198)
BoxDist(p) ==
    LET q == Bin(Un(Bin(p, Param(3))), Param(3))
    IN Bin(Reduce1(Un(q)), Un(Reduce1(q)))

\* box.f (lines 196-198): center and size are whatever the caller passed
RunBox(c, p) ==
    LET q == Bin(Un(Bin(p, Param(Len(c.center)))), Param(Len(c.size)))
    IN Bin(Reduce1(Un(q)), Un(Reduce1(q)))

\* a trigonometric expression in the three columns of p
Trig(p) == Un(Bin(Bin(Col(p, 1), Col(p, 2)), Col(p, 3)))

\* t * d2 + (1 - t) * d1
Lerp(t, d1, d2) == Bin(Bin(t, d2), Bin(Un(t), d1))

\* a[w] = b[w] and a[:, j] = b: a keeps its buffer and takes up what b was computed from
AssignMasked(a, b) ==
    IF IsArr(a) /\ IsArr(b) /\ a.shape = b.shape
    THEN Arr(a.shape, [k \in 1 .. Len(a.d) |-> a.d[k] \cup b.d[k]], a.buf)
    ELSE Reject
AssignCol(a, j, b) ==
    IF IsArr(a) /\ IsArr(b) /\ Rank(a) = 2 /\ b.shape = <<Rows(a)>>
    THEN Arr(a.shape,
             [k \in 1 .. Len(a.d) |->
                 IF ((k - 1) % NCols(a)) + 1 = j THEN b.d[((k - 1) \div NCols(a)) + 1] ELSE a.d[k]],
             a.buf)
    ELSE Reject

\* pyramid, lines 365-367: the array a that is assigned into, before the assignment
PyramidA(p) == Bin(Un(Cols(p, <<1, 2>>)), Scal)

\* wrap_around, lines 1231-1239: the array q that is assigned into
WrapQAliased(p) == p
WrapQ(p) ==
    LET d == Reshape_1_1(Un(Bin(Col(p, 1), Col(p, 2))))
        t == Reshape_1_1(Un(Un(Bin(Col(p, 2), Col(p, 1)))))
    IN Bin(Bin(Param(3), Bin(Param(3), t)), Bin(Param(3), d))

\* the array a transform hands to the field it wraps
Inner(c, p) ==
    CASE c.kind = "translate" -> Bin(p, Param(Len(c.offset)))
      [] c.kind = "scale" -> Bin(p, Param(3))
      [] c.kind = "rotate" -> DotM(p)
      [] c.kind = "mirror" -> Bin(DotM(Bin(p, Param(3))), Param(3))
      [] c.kind = "elongate" -> Un(Bin(Un(p), Scal))
      [] c.kind = "twist" ->
            _vec(<<Bin(Bin(Un(Col(p, 3)), Col(p, 1)), Bin(Un(Col(p, 3)), Col(p, 2))),
                   Bin(Bin(Un(Col(p, 3)), Col(p, 1)), Bin(Un(Col(p, 3)), Col(p, 2))),
                   Col(p, 3)>>)
      [] c.kind = "circular_array" ->
            _vec(<<Bin(Un(Bin(Col(p, 2), Col(p, 1))), Bin(Col(p, 1), Col(p, 2))),
                   Bin(Un(Bin(Col(p, 2), Col(p, 1))), Bin(Col(p, 1), Col(p, 2))),
                   Col(p, 3)>>)
      [] c.kind = "wrap_around" -> AssignCol(WrapQ(p), 3, Col(p, 3))
      [] c.kind = "slice" ->
            _vec(<<Col(p, 1), Col(p, 2), Arr(<<Rows(p)>>, [i \in 1 .. Rows(p) |-> {}], "local")>>)

RECURSIVE Run(_, _, _)
RECURSIVE RunF(_, _, _)

\* SDF3.__call__ (lines 26-27): self.f(p).reshape((-1, 1))
Run(h, fv, p) == Reshape_1_1(RunF(h, Deref(h, fv).f, p))

RunPyramid(p) ==
    LET a == AssignMasked(PyramidA(p), Cols(PyramidA(p), <<2, 1>>))
    IN Un(Bin(Bin(Col(a, 1), Col(p, 3)), Col(a, 2)))

\* FG_gyroid, lines 724-744
RunFGGyroid(h, c, p) ==
    LET hh == Reshape_1_1(Un(Un(Reduce1(Run(h, c.fh, p)))))
        tt == Reshape_1_1(Un(Un(Reduce1(Run(h, c.ft, p)))))
    IN Bin(Bin(Un(Bin(Trig(p), tt)), hh), BoxDist(p))

RunElongate(h, c, p) ==
    LET q == Bin(Un(p), Scal)
        x == Reshape_1_1(Col(q, 1))
        y == Reshape_1_1(Col(q, 2))
        z == Reshape_1_1(Col(q, 3))
    IN Bin(Run(h, c.other, Inner(c, p)), Un(Bin(x, Bin(y, z))))

RunTransition(h, c, p) ==
    LET t == IF c.kind = "transition_linear"
             THEN Reshape_1_1(Un(Un(DotV(Bin(p, Param(3))))))
             ELSE Reshape_1_1(Un(Un(Reduce1(Un(Run(h, c.f2, p))))))
    IN Lerp(t, Run(h, c.f0, p), Run(h, c.f1, p))

\* slice.f, lines 1257-1263: A is a view of what a(p) returned
SliceA(h, c, p) == Reshape_1(Run(h, c.a, Inner(c, p)))
RunSlice(h, c, p) == AssignMasked(SliceA(h, c, p), Un(Reshape_1(Run(h, c.b, Inner(c, p)))))

RunF(h, c, p) ==
    IF ~IsClosure(c) THEN Run(h, c, p)
    ELSE CASE c.kind = "sphere" -> Un(Reduce1(Bin(p, Param(Len(c.center)))))
           [] c.kind = "plane" -> DotV(Bin(Param(3), p))
           [] c.kind = "box" -> RunBox(c, p)
           [] c.kind = "pyramid" -> RunPyramid(p)
           [] c.kind = "graded_gyroid" ->
                Bin(Un(Bin(Bin(Trig(p), Un(Col(p, 2))), Un(Col(p, 1)))), BoxDist(p))
           [] c.kind = "tetrahedron" -> Trig(p)
           [] c.kind = "FG_gyroid" -> RunFGGyroid(h, c, p)
           [] c.kind \in {"translate", "rotate", "mirror", "twist", "wrap_around"} ->
                Run(h, c.other, Inner(c, p))
           [] c.kind = "scale" -> Bin(Run(h, c.other, Inner(c, p)), Scal)
           [] c.kind = "elongate" -> RunElongate(h, c, p)
           [] c.kind = "circular_array" ->
                Bin(Run(h, c.other, Inner(c, p)), Run(h, c.other, Inner(c, p)))
           [] c.kind \in {"union", "intersection", "difference"} ->
                Bin(Run(h, c.a, p), Run(h, c.b, p))
           [] c.kind = "negate" -> Un(Run(h, c.other, p))
           [] c.kind \in {"transition_linear", "transition_sdf"} -> RunTransition(h, c, p)
           [] c.kind = "slice" -> RunSlice(h, c, p)

\* the buffers an evaluation assigns into
RECURSIVE Writes(_, _, _)
Writes(h, fv, p) ==
    LET c == Deref(h, fv).f
    IN IF ~IsClosure(c) THEN Writes(h, c, p)
       ELSE CASE c.kind = "pyramid" -> {PyramidA(p).buf}
              [] c.kind = "wrap_around" -> {WrapQ(p).buf} \cup Writes(h, c.other, Inner(c, p))
              [] c.kind = "slice" ->
                    {SliceA(h, c, p).buf} \cup Writes(h, c.a, Inner(c, p))
                        \cup Writes(h, c.b, Inner(c, p))
              [] c.kind \in {"translate", "rotate", "mirror", "twist", "scale", "elongate",
                             "circular_array"} -> Writes(h, c.other, Inner(c, p))
              [] c.kind = "negate" -> Writes(h, c.other, p)
              [] c.kind \in {"union", "intersection", "difference"} ->
                    Writes(h, c.a, p) \cup Writes(h, c.b, p)
              [] c.kind = "FG_gyroid" -> Writes(h, c.fh, p) \cup Writes(h, c.ft, p)
              [] c.kind = "transition_linear" -> Writes(h, c.f0, p) \cup Writes(h, c.f1, p)
              [] c.kind = "transition_sdf" ->
                    Writes(h, c.f0, p) \cup Writes(h, c.f1, p) \cup Writes(h, c.f2, p)
              [] OTHER -> {}

(***************************************************************************)
(* Building fields and evaluating them on batches: heap is the list of     *)
(* fields built so far, batch records the caller's array of the last       *)
(* evaluation and the buffers that evaluation assigned into                *)
(***************************************************************************)
Primitives ==
    {sphere(One, ORIGIN), box(One, ORIGIN), pyramid, graded_gyroid, tetrahedron(One)}

Is3D(h, i) == h[i].cls = "SDF3"

\* the caller's array: n points of the dimension the field takes
Input(h, i, n) ==
    IF Is3D(h, i) THEN BatchArr(n)
    ELSE Arr(<<n, 2>>, [k \in 1 .. (n * 2) |-> {((k - 1) \div 2) + 1}], "batch")

BatchInit ==
    /\ heap = <<>>
    /\ _ops = Register(<<>>, 1)
    /\ ret = Called("init", <<>>, <<>>)
    /\ batch = [n |-> 0, written |-> {}]

\* the first field is a primitive
BPrimitive ==
    /\ Len(heap) = 0
    /\ \E f \in Primitives : Returns("primitive", <<f.f.kind>>, f)

\* an operator of one field, applied to the field built last
BTransform ==
    /\ ret.op # "__call__"
    /\ Len(heap) \in 1 .. (MaxFields - 1)
    /\ Is3D(heap, Len(heap))
    /\ LET o == Ref(Len(heap))
       IN \/ Returns("translate", <<o>>, translate(o, X))
          \/ Returns("scale", <<o>>, scale(o, QI(2)))
          \/ Returns("rotate", <<o>>, rotate(o, Pi, Z))
          \/ Returns("mirror", <<o>>, mirror(o, X, ORIGIN))
          \/ Returns("circular_array", <<o>>, circular_array(_ops, o, 2, Zero))
          \/ Returns("negate", <<o>>, negate(o))
          \/ Returns("elongate", <<o>>, elongate(o))
          \/ Returns("twist", <<o>>, twist(o))
          \/ Returns("wrap_around", <<o>>, wrap_around(o))
          \/ Returns("slice", <<o>>, slice(_ops, o))

\* an operator of several fields: the field built last, with itself or with
\* the primitive it was built from
BCombine ==
    /\ ret.op # "__call__"
    /\ Len(heap) \in 1 .. (MaxFields - 1)
    /\ Is3D(heap, Len(heap))
    /\ \E j \in {1, Len(heap)} :
        /\ Is3D(heap, j)
        /\ LET a == Ref(Len(heap))
               b == Ref(j)
           IN \/ Returns("union", <<a, b>>, union(a, b, None))
              \/ Returns("intersection", <<a, b>>, intersection(a, b, None))
              \/ Returns("difference", <<a, b>>, difference(a, b, None))
              \/ Returns("transition_linear", <<a, b>>, transition_linear(a, b))
              \/ Returns("transition_sdf", <<a, b, a>>, transition_sdf(a, b, a))
              \/ Returns("FG_gyroid", <<a, b>>, FG_gyroid(a, b))

\* F(points) on a batch of n points, F the field built last; the run ends here
BEvaluate ==
    /\ ret.op # "__call__"
    /\ \E i \in {Len(heap)} \ {0}, n \in 0 .. MaxBatch :
        /\ ret' = Called("__call__", <<Ref(i), n>>, Run(heap, Ref(i), Input(heap, i, n)))
        /\ batch' = [n |-> n, written |-> Writes(heap, Ref(i), Input(heap, i, n))]
    /\ UNCHANGED <<heap, _ops>>

BatchNext ==
    \/ BPrimitive
    \/ BTransform
    \/ BCombine
    \/ BEvaluate

BatchSpec == BatchInit /\ [][BatchNext]_vars

\* C1: every evaluation on a batch of n points returns n distances, one per
\* point, and the distance at index i is computed from the point at index i only
C1_OneDistancePerPoint ==
    ret.op = "__call__" =>
        /\ ret.result.shape = <<ret.args[2], 1>>
        /\ \A i \in 1 .. ret.args[2] : ret.result.d[i] \subseteq {i}

\* C8: an evaluation assigns into arrays it made itself only, never into the
\* caller's batch or into an array a field keeps
C8_EvaluationWritesNothing ==
    ret.op = "__call__" => batch.written \subseteq {"local"}
C8_Witness ==
    /\ ret.op = "__call__"
    /\ batch.n >= 2
    /\ batch.written = {"local"}
    /\ Deref(heap, ret.args[1]).f.kind = "wrap_around"
    /\ Deref(heap, Deref(heap, ret.args[1]).f.other).f.kind = "pyramid"

(***************************************************************************)
(* Using fields: attribute requests, dispatched operator calls, the        *)
(* operators | & - and k(), on the fields built so far                     *)
(***************************************************************************)
\* what normal attribute lookup finds on an SDF3 before __getattr__ is tried
ClassAttrs == {"k", "generate", "save", "show_slice"}
InstanceAttrs(o) == {"f"} \cup (IF o.k # NoAttr THEN {"_k"} ELSE {})

\* F.name
Getattr(h, ops, i, name) ==
    IF name \in ClassAttrs \cup InstanceAttrs(h[i]) THEN [attr |-> name]
    ELSE SDF3__getattr__(ops, Ref(i), name)

\* the operators that are called here, and the arguments they are called with
Callable ==
    {"translate", "scale", "rotate", "rotate_to", "orient", "mirror", "circular_array",
     "slice", "union", "difference", "intersection", "negate"}
ArgsOf(name) ==
    CASE name = "translate" -> <<X>>
      [] name = "scale" -> <<QI(2)>>
      [] name = "rotate" -> <<Pi, Z>>
      [] name = "rotate_to" -> <<Z, X>>
      [] name = "orient" -> <<X>>
      [] name = "mirror" -> <<X, ORIGIN>>
      [] name = "circular_array" -> <<2, Zero>>
      [] name \in {"union", "difference", "intersection"} -> <<Ref(1)>>
      [] OTHER -> <<>>

\* names requested without a call
Requested == {"foo", "_k", "k", "repeat"}

Init ==
    /\ heap = <<>>
    /\ _ops = Register(<<>>, 1)
    /\ ret = Called("init", <<>>, <<>>)
    /\ batch = [n |-> 0, written |-> {}]

LPrimitive ==
    /\ Len(heap) = 0
    /\ \E f \in {ProbeA, sphere(One, ORIGIN)} : Returns("primitive", <<f.f.kind>>, f)

\* F.name for the field built last
LGetattr ==
    /\ Len(heap) >= 1
    /\ Is3D(heap, Len(heap))
    /\ \E name \in Requested :
        ret' = Called("getattr", <<Ref(Len(heap)), name>>, Getattr(heap, _ops, Len(heap), name))
    /\ UNCHANGED <<heap, _ops, batch>>

\* F.name(args) for the field built last: the request, then the call of what it gave
LDispatch ==
    /\ Len(heap) \in 1 .. (MaxFields - 1)
    /\ Is3D(heap, Len(heap))
    /\ \E name \in Callable :
        LET attr == Getattr(heap, _ops, Len(heap), name)
        IN /\ "partial" \in DOMAIN attr
           /\ Returns("dispatch", <<Ref(Len(heap)), name, ArgsOf(name)>>,
                      Call(_ops, attr, ArgsOf(name)))

\* F | G, F & G, F - G
LOperator ==
    /\ Len(heap) \in 1 .. (MaxFields - 1)
    /\ Is3D(heap, Len(heap))
    /\ LET a == Ref(Len(heap))
           b == Ref(1)
       IN \/ Returns("__or__", <<a, b>>, SDF3__or__(a, b))
          \/ Returns("__and__", <<a, b>>, SDF3__and__(a, b))
          \/ Returns("__sub__", <<a, b>>, SDF3__sub__(a, b))

\* F.k(k) on the first field, which the later ones are built from
LK ==
    /\ \E i \in {1}, k \in KValues :
        /\ Len(heap) >= i
        /\ heap' = SDF3_k(heap, i, k)
        /\ ret' = Called("k", <<Ref(i), k>>, Ref(i))
    /\ UNCHANGED <<_ops, batch>>

Next ==
    \/ LPrimitive
    \/ LGetattr
    \/ LDispatch
    \/ LOperator
    \/ LK

Spec == Init /\ [][Next]_vars

\* C7: a field is immutable: no call changes the smoothing coefficient of a
\* field from what it was at construction (none), and every call on a field
\* returns a new field, never the field it was made on
C7_FieldImmutable ==
    /\ \A i \in 1 .. Len(heap) : KOf(heap, Ref(i)) = None
    /\ ret.op \in {"k", "dispatch", "__or__", "__and__", "__sub__"} => ret.result # ret.args[1]

\* C9: on every field every registered name gives a callable bound to the
\* field, F.name(args) builds what name(F, args) builds, and the result of a
\* 3D operator is again an SDF3
Registered == {Decorated[i] : i \in 1 .. Len(Decorated)}
C9_DispatchIsCall ==
    /\ \A i \in 1 .. Len(heap) : \A name \in Registered :
        Is3D(heap, i) => Getattr(heap, _ops, i, name) = [partial |-> name, bound |-> <<Ref(i)>>]
    /\ ret.op = "dispatch" =>
        /\ Deref(heap, ret.result) = Apply(_ops, ret.args[2], <<ret.args[1]>> \o ret.args[3])
        /\ ret.args[2] # "slice" => Is3D(heap, ret.result.ref)
\* the chain F.translate(t).rotate(a)
C9_Witness ==
    /\ ret.op = "dispatch"
    /\ ret.args[2] = "rotate"
    /\ ret.args[1] = Ref(2)
    /\ heap[2] = translate(Ref(1), X)
    /\ heap[3] = rotate(Ref(2), Pi, Z)

\* C10: requesting a name that is not registered never gives a value, and the
\* error it fails with is not the ordinary attribute-not-found error
C10_UnknownCapability ==
    (ret.op = "getattr" /\ ret.args[2] \notin DOMAIN _ops \cup ClassAttrs \cup {"f"}) =>
        /\ IsError(ret.result)
        /\ ret.result.error # AttributeError.error

(***************************************************************************)
(* Constructors called with parameter vectors of one, two or three         *)
(* components, and the evaluation of what they return                      *)
(***************************************************************************)
Vectors == UNION {[1 .. m -> {QI(c) : c \in Coords}] : m \in 1 .. 3}

ShapeInit ==
    /\ heap = <<>>
    /\ _ops = Register(<<>>, 1)
    /\ ret = Called("init", <<>>, <<>>)
    /\ batch = [n |-> 0, written |-> {}]

SSphere ==
    /\ Len(heap) = 0
    /\ \E center \in Vectors : Returns("sphere", <<center>>, sphere(One, center))

SBox ==
    /\ Len(heap) = 0
    /\ \E center \in Vectors : Returns("box", <<center>>, box(One, center))

STranslate ==
    /\ Len(heap) = 1
    /\ \E offset \in Vectors : Returns("translate", <<offset, Ref(1)>>, translate(Ref(1), offset))

\* F(points) for the field built last
SEvaluate ==
    /\ Len(heap) >= 1
    /\ ret.op # "__call__"
    /\ \E n \in 0 .. MaxBatch :
        /\ ret' = Called("__call__", <<Ref(Len(heap)), n>>,
                         Run(heap, Ref(Len(heap)), BatchArr(n)))
        /\ batch' = [n |-> n, written |-> Writes(heap, Ref(Len(heap)), BatchArr(n))]
    /\ UNCHANGED <<heap, _ops>>

ShapeNext ==
    \/ SSphere
    \/ SBox
    \/ STranslate
    \/ SEvaluate

ShapeSpec == ShapeInit /\ [][ShapeNext]_vars

\* C11: a constructor given a center or offset that has not three components
\* fails itself: it returns no field
C11_ShapeMismatchFailsAtConstruction ==
    (ret.op \in {"sphere", "box", "translate"} /\ Len(ret.args[1]) # 3) => IsError(ret.result)

(***************************************************************************)
(* The registry over a run of the module: the decorators run one by one    *)
(* while the module is imported, then fields are built, dispatched on and  *)
(* evaluated                                                               *)
(***************************************************************************)
\* what a call of a registered wrapper does to _ops (lines 66-67, 74-75): the
\* assignment _ops[f.__name__] = wrapper is in the decorator, not in wrapper
WrapperRegisters(ops, name) == op3(ops, "wrapper")
WrapperOps(ops, name) == ops

RegistryInit ==
    /\ heap = <<>>
    /\ _ops = <<>>
    /\ ret = Called("import", <<1>>, <<>>)
    /\ batch = [n |-> 0, written |-> {}]

\* the next decorated definition is executed
RImport ==
    /\ ret.op = "import"
    /\ ret.args[1] <= Len(Decorated)
    /\ _ops' = IF Decorated[ret.args[1]] = "slice" THEN op32(_ops, Decorated[ret.args[1]])
               ELSE op3(_ops, Decorated[ret.args[1]])
    /\ ret' = Called("import", <<ret.args[1] + 1>>, <<>>)
    /\ UNCHANGED <<heap, batch>>

\* the end of the module is reached
RImported ==
    /\ ret.op = "import"
    /\ ret.args[1] > Len(Decorated)
    /\ ret' = Called("init", <<>>, <<>>)
    /\ UNCHANGED <<heap, _ops, batch>>

RPrimitive ==
    /\ ret.op # "import"
    /\ Len(heap) = 0
    /\ \E f \in Primitives : Returns("primitive", <<f.f.kind>>, f)

\* F.name(args), and name(F, args), for the field built last
RDispatch ==
    /\ ret.op \notin {"import", "__call__"}
    /\ Len(heap) \in 1 .. (MaxFields - 1)
    /\ Is3D(heap, Len(heap))
    /\ \E name \in Callable :
        LET attr == Getattr(heap, _ops, Len(heap), name)
        IN \/ /\ "partial" \in DOMAIN attr
              /\ heap' = Append(heap, Call(_ops, attr, ArgsOf(name)))
              /\ ret' = Called("dispatch", <<Ref(Len(heap)), name, ArgsOf(name)>>,
                               Ref(Len(heap) + 1))
              /\ _ops' = WrapperOps(_ops, attr.partial)
              /\ UNCHANGED batch
           \/ /\ heap' = Append(heap, Apply(_ops, name, <<Ref(Len(heap))>> \o ArgsOf(name)))
              /\ ret' = Called("call", <<Ref(Len(heap)), name, ArgsOf(name)>>,
                               Ref(Len(heap) + 1))
              /\ _ops' = WrapperOps(_ops, name)
              /\ UNCHANGED batch

REvaluate ==
    /\ ret.op \notin {"import", "__call__"}
    /\ Len(heap) >= 1
    /\ \E n \in 0 .. MaxBatch :
        /\ ret' = Called("__call__", <<Ref(Len(heap)), n>>,
                         Run(heap, Ref(Len(heap)), Input(heap, Len(heap), n)))
        /\ batch' = [n |-> n, written |-> Writes(heap, Ref(Len(heap)), Input(heap, Len(heap), n))]
    /\ UNCHANGED <<heap, _ops>>

RegistryNext ==
    \/ RImport
    \/ RImported
    \/ RPrimitive
    \/ RDispatch
    \/ REvaluate

RegistrySpec == RegistryInit /\ [][RegistryNext]_vars

\* C12: once the module is imported, no construction, dispatch, call or
\* evaluation changes the registry: its names and the operator under each
\* name stay what the import left
C12_RegistryWriteOnce ==
    ret.op # "import" =>
        /\ _ops = [name \in Registered |-> name]
        /\ _ops = Register(<<>>, 1)
C12_Witness ==
    /\ ret.op = "__call__"
    /\ Len(heap) = 3
    /\ ret.args[2] >= 1
    /\ heap[2].f.kind = "translate"
    /\ heap[3].cls = "SDF2"

====
